---- MODULE Spec2Model ----
(***************************************************************************)
(* Model of ubuntu-autoinstall-generator.py: the UbuntuISOBuilder pipeline *)
(* (check_dependencies, validate_iso, extract_iso, modify_boot_configs,    *)
(* create_iso) run by main() inside the `with UbuntuISOBuilder(...)`       *)
(* scope, and the boot-config patch engine (grub_patterns,                 *)
(* isolinux_pattern, modify_file_with_patterns).                           *)
(*                                                                         *)
(* A config text is a sequence of atoms.  An atom is a piece of text that  *)
(* the patterns treat as a unit: the literals of the regular expressions   *)
(* ("linux", "efi", "/casper/vmlinuz", "---", "append"), the whitespace    *)
(* characters, "#", and "q" for any other non-blank character.             *)
(***************************************************************************)
EXTENDS Integers, Sequences, FiniteSets, TLC

\* ------------------------------------------------------------------ bounds
\* Build invocations in a row over the same output path.
MaxRuns == 2
\* Characters in the boot-catalog report (stdout of -report_el_torito).
MaxReport == 3
\* Fragments following the keyword part in a config text given to the patcher.
MaxTail == 3

\* ------------------------------------------------------- program constants
\* create_iso: size_mb < 1 with size_mb = st_size / (1024 * 1024)
MinOutputBytes == 1048576

\* ---------------------------------------------------------------- patterns
Whitespace == {" ", "\n", "\t"}

KernelPaths == {"/casper/vmlinuz", "/casper/hwe-vmlinuz"}

\* f"autoinstall ds=nocloud-net;s=http://{http_ip}:{http_port}/" with the
\* defaults 10.0.2.2 and 8080; the string holds one blank.
autoinstall_params ==
    <<"autoinstall", " ", "ds=nocloud-net;s=http://10.0.2.2:8080/">>

\* (linux\s+/casper/(?:hwe-)?vmlinuz)(\s+---\s+|\s*$)    -> \1 PARAMS\2
\* (linuxefi\s+/casper/(?:hwe-)?vmlinuz)(\s+---\s+|\s*$) -> \1 PARAMS\2
grub_patterns ==
    << [kind |-> "kernel", keyword |-> <<"linux">>],
       [kind |-> "kernel", keyword |-> <<"linux", "efi">>] >>

\* (append\s+) -> \1PARAMS followed by a blank
isolinux_pattern == [kind |-> "append", keyword |-> <<"append">>]

NoMatch == [ok |-> FALSE, g1 |-> 0, end |-> 0]

\* Length of the run of whitespace atoms of t that starts at index i (\s*).
RECURSIVE WsRun(_, _)
WsRun(t, i) ==
    IF i <= Len(t) /\ t[i] \in Whitespace THEN 1 + WsRun(t, i + 1) ELSE 0

\* `$` under re.MULTILINE at the position before index q: the end of the
\* text, or just before a newline.
AtEol(t, q) == q > Len(t) \/ t[q] = "\n"

\* \s*$ : the greedy run gives back whitespace until `$` matches; the number
\* of whitespace atoms kept, or -1 when `$` matches nowhere.
RECURSIVE EolBacktrack(_, _, _)
EolBacktrack(t, p, m) ==
    IF m < 0 THEN -1
    ELSE IF AtEol(t, p + m) THEN m
    ELSE EolBacktrack(t, p, m - 1)

HasAt(t, i, kw) ==
    i + Len(kw) - 1 <= Len(t) /\ SubSeq(t, i, i + Len(kw) - 1) = kw

\* A match of a GRUB pattern starting at index i: g1 is the last index of
\* group 1, end the last index of the whole match.
KernelMatch(kw, t, i) ==
    LET j  == i + Len(kw)
        w1 == WsRun(t, j)
        k  == j + w1
        p  == k + 1
        w2 == WsRun(t, p)
        w3 == WsRun(t, p + w2 + 1)
        m  == EolBacktrack(t, p, w2)
    IN  IF ~HasAt(t, i, kw) \/ w1 < 1 \/ k > Len(t) THEN NoMatch
        ELSE IF t[k] \notin KernelPaths THEN NoMatch
        ELSE IF w2 >= 1 /\ p + w2 <= Len(t) /\ t[p + w2] = "---" /\ w3 >= 1
             THEN [ok |-> TRUE, g1 |-> k, end |-> p + w2 + w3]
        ELSE IF m >= 0 THEN [ok |-> TRUE, g1 |-> k, end |-> p + m - 1]
        ELSE NoMatch

\* A match of the ISOLINUX pattern starting at index i.
AppendMatch(kw, t, i) ==
    LET w == WsRun(t, i + Len(kw))
    IN  IF HasAt(t, i, kw) /\ w >= 1
        THEN [ok |-> TRUE, g1 |-> i + Len(kw) - 1 + w, end |-> i + Len(kw) - 1 + w]
        ELSE NoMatch

MatchAt(pattern, t, i) ==
    IF pattern.kind = "kernel" THEN KernelMatch(pattern.keyword, t, i)
    ELSE AppendMatch(pattern.keyword, t, i)

\* The replacement template expanded for the match m that starts at i.
Replacement(pattern, t, i, m) ==
    IF pattern.kind = "kernel"
    THEN SubSeq(t, i, m.g1) \o <<" ">> \o autoinstall_params
             \o SubSeq(t, m.g1 + 1, m.end)
    ELSE SubSeq(t, i, m.g1) \o autoinstall_params \o <<" ">>

\* re.sub(pattern, replacement, content, flags=re.MULTILINE): the leftmost
\* non-overlapping matches, each replaced, scanning the whole text.
RECURSIVE SubFrom(_, _, _)
SubFrom(pattern, t, i) ==
    IF i > Len(t) THEN <<>>
    ELSE LET m == MatchAt(pattern, t, i)
         IN  IF m.ok
             THEN Replacement(pattern, t, i, m) \o SubFrom(pattern, t, m.end + 1)
             ELSE <<t[i]>> \o SubFrom(pattern, t, i + 1)

re_sub(pattern, t) == SubFrom(pattern, t, 1)

\* for pattern, replacement in patterns: content = re.sub(...)
RECURSIVE ApplyPatterns(_, _)
ApplyPatterns(patterns, t) ==
    IF patterns = <<>> THEN t
    ELSE ApplyPatterns(Tail(patterns), re_sub(Head(patterns), t))

\* re.sub(r'  +', ' ', content): a run of two or more blanks becomes one.
RECURSIVE collapse_spaces(_)
collapse_spaces(t) ==
    IF Len(t) < 2 THEN t
    ELSE IF t[1] = " " /\ t[2] = " " THEN collapse_spaces(Tail(t))
    ELSE <<t[1]>> \o collapse_spaces(Tail(t))

\* The text modify_file_with_patterns computes from a file's content.
PatchContent(patterns, t) == collapse_spaces(ApplyPatterns(patterns, t))

Dialects == {"grub", "isolinux"}

PatternsOf(d) == IF d = "grub" THEN grub_patterns ELSE <<isolinux_pattern>>

\* --------------------------------------------------------- create_iso data
\* Characters of the boot-catalog report: a word character, the two
\* whitespace characters xorriso separates options with, a single quote.
ReportChars == {"a", " ", "\n", "'"}

Reports == UNION {[1..n -> ReportChars] : n \in 0..MaxReport}

\* str.strip(): leading and trailing whitespace removed.
RECURSIVE lstrip(_)
lstrip(s) == IF s # <<>> /\ Head(s) \in Whitespace THEN lstrip(Tail(s)) ELSE s

RECURSIVE rstrip(_)
rstrip(s) ==
    IF s # <<>> /\ s[Len(s)] \in Whitespace
    THEN rstrip(SubSeq(s, 1, Len(s) - 1)) ELSE s

strip(s) == rstrip(lstrip(s))

\* shlex.split (POSIX rules) over ReportChars: whitespace separates tokens,
\* a single quote opens text taken literally up to the closing quote, ''
\* is an empty token, and an unclosed quote raises ValueError (ok = FALSE).
RECURSIVE ShlexScan(_, _, _, _, _, _)
ShlexScan(s, i, inQuote, tok, started, out) ==
    IF i > Len(s)
    THEN IF inQuote THEN [ok |-> FALSE, tokens |-> <<>>]
         ELSE [ok |-> TRUE, tokens |-> IF started THEN Append(out, tok) ELSE out]
    ELSE IF inQuote
         THEN IF s[i] = "'" THEN ShlexScan(s, i + 1, FALSE, tok, TRUE, out)
              ELSE ShlexScan(s, i + 1, TRUE, Append(tok, s[i]), TRUE, out)
    ELSE IF s[i] \in Whitespace
         THEN IF started THEN ShlexScan(s, i + 1, FALSE, <<>>, FALSE, Append(out, tok))
              ELSE ShlexScan(s, i + 1, FALSE, tok, FALSE, out)
    ELSE IF s[i] = "'" THEN ShlexScan(s, i + 1, TRUE, tok, TRUE, out)
    ELSE ShlexScan(s, i + 1, FALSE, Append(tok, s[i]), TRUE, out)

shlex_split(s) == ShlexScan(s, 1, FALSE, <<>>, FALSE, <<>>)

\* An argument of a command line is a sequence of characters; a fixed word
\* is written as one piece.
OutputArg == <<"<output_iso>">>
IsoDirArg == <<"<iso_dir>">>

\* MasterCommand with the content directory appended before the boot
\* arguments.
MasterCommandDirFirst(out, args, dir) ==
    << <<"xorriso">>, <<"-as">>, <<"mkisofs">>, <<"-r">>, <<"-o">>, out >>
        \o <<dir>> \o args

\* cmd = ['xorriso', '-as', 'mkisofs', '-r', '-o', str(self.output_iso)]
\* cmd.extend(boot_args); cmd.append(str(self.iso_dir))
MasterCommand(out, args, dir) ==
    << <<"xorriso">>, <<"-as">>, <<"mkisofs">>, <<"-r">>, <<"-o">>, out >>
        \o args \o <<dir>>

\* ------------------------------------------------------- files and images
NoFile == [exists |-> FALSE, size |-> 0, by |-> 0]

\* A file of `size` bytes at the output path; `by` is the invocation whose
\* mastering command wrote it, 0 for a file that was there before.
File(size, by) == [exists |-> TRUE, size |-> size, by |-> by]

OutputSizes == {MinOutputBytes - 1, MinOutputBytes}

grub_configs ==
    <<"boot/grub/grub.cfg", "EFI/BOOT/grub.cfg", "boot/grub/loopback.cfg">>

isolinux_configs ==
    <<"isolinux/isolinux.cfg", "isolinux/txt.cfg",
      "syslinux/isolinux.cfg", "syslinux/txt.cfg">>

Candidates == grub_configs \o isolinux_configs

CandidatePatterns(n) ==
    IF n <= Len(grub_configs) THEN grub_patterns ELSE <<isolinux_pattern>>

\* Config texts found in images.
GrubKernelText ==
    <<"linux", "\t", "/casper/vmlinuz", " ", " ", "---", "\n">>
GrubQuietText ==
    <<"linux", "\t", "/casper/vmlinuz", " ", "q", " ", "---", "\n">>
AppendText == <<"append", " ", "q", "\n">>
MenuText == <<"q", " ", "q", "\n">>

EmptyTree == [f \in {} |-> <<>>]

\* The config files of the source images the model builds from: the tree
\* extract_iso leaves in iso_dir, as a function from the candidate paths
\* present to their text.
Images ==
    { EmptyTree,
      ("boot/grub/grub.cfg" :> GrubKernelText)
          @@ ("boot/grub/loopback.cfg" :> GrubQuietText),
      ("boot/grub/grub.cfg" :> GrubKernelText)
          @@ ("EFI/BOOT/grub.cfg" :> MenuText)
          @@ ("isolinux/isolinux.cfg" :> MenuText)
          @@ ("isolinux/txt.cfg" :> AppendText),
      ("syslinux/isolinux.cfg" :> AppendText)
          @@ ("syslinux/txt.cfg" :> AppendText) }

\* modify_file_with_patterns(file_path, patterns) on the tree `tr` with the
\* backups `bk`: every result the file system allows.  `failed` is an
\* exception caught by `except Exception` (read, backup write or write).
ModifyOutcomes(f, patterns, tr, bk) ==
    IF f \notin DOMAIN tr
    THEN {[modified |-> FALSE, failed |-> FALSE, tree |-> tr, backups |-> bk]}
    ELSE LET new == PatchContent(patterns, tr[f])
             \* read_text raised, or the backup could not be written
             nothingWritten ==
                 [modified |-> FALSE, failed |-> TRUE, tree |-> tr, backups |-> bk]
         IN  IF new = tr[f]
             THEN {nothingWritten,
                   [modified |-> FALSE, failed |-> FALSE, tree |-> tr, backups |-> bk]}
             ELSE {nothingWritten,
                   \* the backup was written, the file could not be
                   [modified |-> FALSE, failed |-> TRUE, tree |-> tr,
                    backups |-> (f :> tr[f]) @@ bk],
                   [modified |-> TRUE, failed |-> FALSE,
                    tree |-> (f :> new) @@ tr,
                    backups |-> (f :> tr[f]) @@ bk]}

\* ------------------------------------------------------------------ state
VARIABLES
    run,              \* number of the build invocation (main() runs)
    pc,               \* position of the invocation inside main()
    validate_only,    \* --validate-only
    toolOnPath,       \* shutil.which('xorriso') finds the tool
    sourceExists,     \* self.source_iso.exists()
    output_iso,       \* the file at the output path
    outputAtStart,    \* the file at the output path when the scope was entered
    work_dir,         \* "none", "exists" or "removed"
    readOnlyEntries,  \* the Working Tree holds entries without write permission
    tree,             \* config files under iso_dir: path -> text
    backups,          \* .bak files under iso_dir: path -> text
    fileIdx,          \* modify_boot_configs: the next candidate path
    records,          \* Config File Records of the candidates handled so far
    stages,           \* stages started, in order
    cmds,             \* external-tool commands run, in order
    report,           \* stdout of the boot-catalog report
    reportOutcome,    \* "none", "ok", "failed" or "timeout"
    boot_args,        \* shlex.split(result.stdout.strip())
    masterCmd,        \* the mastering command line that was run
    masterRc,         \* "none", "zero", "nonzero", "timeout" or "interrupted"
    masterWrote,      \* the file the mastering command wrote
    err,              \* the exception leaving the scope, "none" without one
    interrupted,      \* a KeyboardInterrupt was raised inside the scope
    exitStatus,       \* the process exit status, -1 while running
    logs,             \* messages logged
    prev,             \* the invocation before this one
    dialect,          \* patch engine: the dialect whose rules are applied
    original,         \* patch engine: the text before any pass
    before,           \* patch engine: the text before the last pass
    content,          \* patch engine: the text now
    passes            \* patch engine: passes applied

envVars == <<validate_only, toolOnPath, sourceExists>>
treeVars == <<readOnlyEntries, tree, backups, fileIdx, records>>
isoVars == <<report, reportOutcome, boot_args, masterCmd, masterRc, masterWrote>>
patchVars == <<dialect, original, before, content, passes>>

vars ==
    <<run, pc, envVars, output_iso, outputAtStart, work_dir, treeVars, stages,
      cmds, isoVars, err, interrupted, exitStatus, logs, prev, patchVars>>

Stages == <<"dependency-check", "inspect", "extract", "patch-configs", "rebuild">>

NoPrev == [status |-> 0, wrote |-> NoFile]

\* What every invocation starts from.
FreshRun ==
    /\ work_dir = "none"
    /\ readOnlyEntries = FALSE
    /\ tree = EmptyTree
    /\ backups = EmptyTree
    /\ fileIdx = 1
    /\ records = <<>>
    /\ stages = <<>>
    /\ cmds = <<>>
    /\ report = <<>>
    /\ reportOutcome = "none"
    /\ boot_args = <<>>
    /\ masterCmd = <<>>
    /\ masterRc = "none"
    /\ masterWrote = NoFile
    /\ err = "none"
    /\ interrupted = FALSE
    /\ exitStatus = -1
    /\ logs = {}

PatcherIdle ==
    /\ dialect = "grub"
    /\ original = <<>>
    /\ before = <<>>
    /\ content = <<>>
    /\ passes = 0

Init ==
    /\ run = 1
    /\ validate_only \in BOOLEAN
    /\ toolOnPath \in BOOLEAN
    /\ sourceExists \in BOOLEAN
    /\ output_iso \in {NoFile} \cup {File(s, 0) : s \in OutputSizes}
    /\ outputAtStart = NoFile
    /\ prev = NoPrev
    /\ pc = "main"
    /\ FreshRun
    /\ PatcherIdle

\* -------------------------------------------------------------- the scope
\* An exception `e` leaves the with-body: __exit__ runs next.
Raise(e) == err' = e /\ pc' = "exit"

\* UbuntuISOBuilder.__enter__: tempfile.mkdtemp.
enter ==
    /\ pc = "main"
    /\ work_dir' = "exists"
    /\ outputAtStart' = output_iso
    /\ pc' = "deps"
    /\ UNCHANGED <<run, envVars, output_iso, treeVars, stages, cmds, isoVars,
                   err, interrupted, exitStatus, logs, prev, patchVars>>

check_dependencies ==
    /\ pc = "deps"
    /\ stages' = Append(stages, "dependency-check")
    /\ IF toolOnPath THEN pc' = "inspect" /\ err' = err
       ELSE Raise("MissingTools")
    /\ UNCHANGED <<run, envVars, output_iso, outputAtStart, work_dir, treeVars,
                   cmds, isoVars, interrupted, exitStatus, logs, prev, patchVars>>

\* validate_iso: a missing source is fatal; the two reporting commands are
\* best effort, whatever they return the build goes on.
validate_iso ==
    /\ pc = "inspect"
    /\ stages' = Append(stages, "inspect")
    /\ IF ~sourceExists
       THEN Raise("SourceNotFound") /\ cmds' = cmds
       ELSE \E info \in {"ok", "failed", "timeout"},
               find \in {"ok", "failed", "timeout"} :
               /\ cmds' = cmds \o <<"extract /.disk/info", "find">>
               /\ pc' = "branch"
               /\ err' = err
    /\ UNCHANGED <<run, envVars, output_iso, outputAtStart, work_dir, treeVars,
                   isoVars, interrupted, exitStatus, logs, prev, patchVars>>

\* build_branch without the output-exists short-circuit.
build_branch_no_output_check ==
    /\ pc = "branch"
    /\ IF validate_only
       THEN logs' = logs \cup {"Validation complete"} /\ pc' = "exit"
       ELSE logs' = logs /\ pc' = "extract"
    /\ UNCHANGED <<run, envVars, output_iso, outputAtStart, work_dir, treeVars,
                   stages, cmds, isoVars, err, interrupted, exitStatus, prev,
                   patchVars>>

\* build_branch without the validate-only short-circuit.
build_branch_no_validate_only ==
    /\ pc = "branch"
    /\ IF output_iso.exists
       THEN logs' = logs \cup {"Output ISO already exists"} /\ pc' = "exit"
       ELSE logs' = logs /\ pc' = "extract"
    /\ UNCHANGED <<run, envVars, output_iso, outputAtStart, work_dir, treeVars,
                   stages, cmds, isoVars, err, interrupted, exitStatus, prev,
                   patchVars>>

\* build(): the two short-circuits after validate_iso.
build_branch ==
    /\ pc = "branch"
    /\ IF validate_only
       THEN logs' = logs \cup {"Validation complete"} /\ pc' = "exit"
       ELSE IF output_iso.exists
       THEN logs' = logs \cup {"Output ISO already exists"} /\ pc' = "exit"
       ELSE logs' = logs /\ pc' = "extract"
    /\ UNCHANGED <<run, envVars, output_iso, outputAtStart, work_dir, treeVars,
                   stages, cmds, isoVars, err, interrupted, exitStatus, prev,
                   patchVars>>

\* extract_iso up to the end of the xorriso run.  What the tool has put in
\* iso_dir by then may lack write permission, as it does in the image.
extract_iso ==
    /\ pc = "extract"
    /\ stages' = Append(stages, "extract")
    /\ cmds' = Append(cmds, "extract /")
    /\ \E outcome \in {"ok", "failed", "timeout", "interrupted"},
          ro \in BOOLEAN, img \in Images :
          /\ readOnlyEntries' = ro
          /\ tree' = IF outcome = "ok" THEN img ELSE EmptyTree
          /\ outcome # "ok" => img = EmptyTree
          /\ CASE outcome = "ok" -> pc' = "chmod" /\ err' = err
               [] outcome = "failed" -> Raise("ExtractFailed")
               [] outcome = "timeout" -> Raise("ExtractTimeout")
               [] outcome = "interrupted" -> Raise("KeyboardInterrupt")
          /\ interrupted' = (outcome = "interrupted")
    /\ UNCHANGED <<run, envVars, output_iso, outputAtStart, work_dir, backups,
                   fileIdx, records, isoVars, exitStatus, logs, prev, patchVars>>

\* extract_iso, "Make files writable": the os.walk / os.chmod loop.
make_writable ==
    /\ pc = "chmod"
    /\ readOnlyEntries' = FALSE
    /\ pc' = "patch"
    /\ UNCHANGED <<run, envVars, output_iso, outputAtStart, work_dir, tree,
                   backups, fileIdx, records, stages, cmds, isoVars, err,
                   interrupted, exitStatus, logs, prev, patchVars>>

ModifiedCount(rs) == Cardinality({i \in DOMAIN rs : rs[i].modified})

\* Escapes without the except clause: a failure on a file propagates.
EscapesOnFailure(o) == IF o.failed THEN "OSError" ELSE "none"

\* What leaves modify_file_with_patterns when reading, patching or writing
\* the file raised: `except Exception` logs it and the method returns False.
Escapes(o) == "none"

\* modify_boot_configs: one candidate path per step, the GRUB paths first;
\* after the last one the count is logged and build() goes on to create_iso.
modify_boot_configs ==
    /\ pc = "patch"
    /\ fileIdx <= Len(Candidates)
    /\ stages' = IF fileIdx = 1 THEN Append(stages, "patch-configs") ELSE stages
    /\ fileIdx' = fileIdx + 1
    /\ \E o \in ModifyOutcomes(Candidates[fileIdx], CandidatePatterns(fileIdx),
                               tree, backups) :
          LET rs == Append(records,
                        [path |-> Candidates[fileIdx],
                         present |-> Candidates[fileIdx] \in DOMAIN tree,
                         failed |-> o.failed,
                         modified |-> o.modified])
              failure == IF o.failed THEN {"Failed to modify"} ELSE {}
          IN  /\ tree' = o.tree
              /\ backups' = o.backups
              /\ records' = rs
              /\ IF Escapes(o) # "none"
                 THEN Raise(Escapes(o)) /\ logs' = logs
                 ELSE IF fileIdx = Len(Candidates)
                 THEN /\ pc' = "bootinfo"
                      /\ err' = err
                      /\ logs' = logs \cup failure \cup
                             (IF ModifiedCount(rs) = 0
                              THEN {"No boot configuration files were modified"}
                              ELSE {"Successfully modified"})
                 ELSE pc' = pc /\ err' = err /\ logs' = logs \cup failure
    /\ UNCHANGED <<run, envVars, output_iso, outputAtStart, work_dir,
                   readOnlyEntries, cmds, isoVars, interrupted, exitStatus,
                   prev, patchVars>>

\* create_iso, step 1: the boot-catalog report of the source image and its
\* tokens.  CalledProcessError and TimeoutExpired become RuntimeError; the
\* ValueError of shlex.split is not caught here.
boot_info ==
    /\ pc = "bootinfo"
    /\ stages' = Append(stages, "rebuild")
    /\ cmds' = Append(cmds, "report_el_torito")
    /\ \E outcome \in {"ok", "failed", "timeout"}, out \in Reports :
          /\ outcome # "ok" => out = <<>>
          /\ reportOutcome' = outcome
          /\ report' = out
          /\ IF outcome = "ok"
             THEN LET r == shlex_split(strip(out))
                  IN  IF r.ok
                      THEN boot_args' = r.tokens /\ pc' = "master" /\ err' = err
                      ELSE boot_args' = boot_args /\ Raise("ValueError")
             ELSE boot_args' = boot_args /\ Raise("BootInfoFailed")
    /\ UNCHANGED <<run, envVars, output_iso, outputAtStart, work_dir, treeVars,
                   masterCmd, masterRc, masterWrote, interrupted, exitStatus,
                   logs, prev, patchVars>>

\* CreateIsoError without the check of the output's size.
CreateIsoErrorNoSizeCheck(rc, f) ==
    CASE rc = "interrupted" -> "KeyboardInterrupt"
      [] rc = "timeout" -> "IsoCreationTimeout"
      [] rc = "nonzero" -> "IsoCreationFailed"
      [] rc = "zero" /\ ~f.exists -> "OutputNotCreated"
      [] OTHER -> "none"

\* create_iso, lines 281-301: the exception the run of the mastering command
\* ends in, given how the command ended and the file now at the output path.
CreateIsoError(rc, f) ==
    CASE rc = "interrupted" -> "KeyboardInterrupt"
      [] rc = "timeout" -> "IsoCreationTimeout"
      [] rc = "nonzero" -> "IsoCreationFailed"
      [] rc = "zero" /\ ~f.exists -> "OutputNotCreated"
      [] rc = "zero" /\ f.exists /\ f.size < MinOutputBytes -> "OutputTooSmall"
      [] OTHER -> "none"

\* OutputAfterCreate if a failed create_iso unlinked the output.
OutputRemovedOnFailure(f, e) == IF e # "none" THEN NoFile ELSE f

\* The file at the output path once create_iso has ended in e: no path of
\* create_iso removes or rewrites what the tool left.
OutputAfterCreate(f, e) == f

\* create_iso, step 2: the mastering command is built and run, its result
\* checked.
create_iso ==
    /\ pc = "master"
    /\ masterCmd' = MasterCommand(OutputArg, boot_args, IsoDirArg)
    /\ cmds' = Append(cmds, "mkisofs")
    /\ \E rc \in {"zero", "nonzero", "timeout", "interrupted"},
          written \in {NoFile} \cup {File(s, run) : s \in OutputSizes} :
          LET now == IF written.exists THEN written ELSE output_iso
              e == CreateIsoError(rc, now)
          IN  /\ masterRc' = rc
              /\ masterWrote' = written
              /\ output_iso' = OutputAfterCreate(now, e)
              /\ interrupted' = (rc = "interrupted")
              /\ IF e = "none"
                 THEN /\ logs' = logs \cup {"ISO created successfully",
                                            "Build complete"}
                      /\ pc' = "exit"
                      /\ err' = err
                 ELSE Raise(e) /\ logs' = logs
    /\ UNCHANGED <<run, envVars, outputAtStart, work_dir, treeVars, stages,
                   report, reportOutcome, boot_args, exitStatus, prev,
                   patchVars>>

\* shutil.rmtree(self.work_dir): whether it removes the tree.  Entries in a
\* directory without write permission can be removed by a privileged user
\* only; rmtree raises otherwise.
RmtreeOutcomes(ro) == IF ro THEN {TRUE, FALSE} ELSE {TRUE}

\* UbuntuISOBuilder.__exit__
exit_scope ==
    /\ pc = "exit"
    /\ IF work_dir = "exists"
       THEN \E removed \in RmtreeOutcomes(readOnlyEntries) :
               IF removed THEN work_dir' = "removed" /\ err' = err
               ELSE work_dir' = work_dir /\ err' = "PermissionError"
       ELSE work_dir' = work_dir /\ err' = err
    /\ pc' = "handler"
    /\ UNCHANGED <<run, envVars, output_iso, outputAtStart, treeVars, stages,
                   cmds, isoVars, interrupted, exitStatus, logs, prev,
                   patchVars>>

\* main(): the except clauses after the with statement, and the exit status.
main ==
    /\ pc = "handler"
    /\ exitStatus' = IF err = "none" THEN 0 ELSE 1
    /\ logs' = logs \cup
           (IF err = "none" THEN {}
            ELSE IF err = "KeyboardInterrupt" THEN {"Build interrupted by user"}
            ELSE {"Build failed"})
    /\ pc' = "done"
    /\ UNCHANGED <<run, envVars, output_iso, outputAtStart, work_dir, treeVars,
                   stages, cmds, isoVars, err, interrupted, prev, patchVars>>

ScopePcs ==
    {"deps", "inspect", "branch", "extract", "chmod", "patch", "bootinfo",
     "master"}

\* The user interrupts between two steps inside the scope.
interrupt ==
    /\ pc \in ScopePcs
    /\ Raise("KeyboardInterrupt")
    /\ interrupted' = TRUE
    /\ UNCHANGED <<run, envVars, output_iso, outputAtStart, work_dir, treeVars,
                   stages, cmds, isoVars, exitStatus, logs, prev, patchVars>>

\* The program is run again with the same arguments and output path.
next_invocation ==
    /\ pc = "done"
    /\ run < MaxRuns
    /\ run' = run + 1
    /\ prev' = [status |-> exitStatus, wrote |-> masterWrote]
    /\ pc' = "main"
    /\ outputAtStart' = NoFile
    /\ work_dir' = "none"
    /\ readOnlyEntries' = FALSE
    /\ tree' = EmptyTree
    /\ backups' = EmptyTree
    /\ fileIdx' = 1
    /\ records' = <<>>
    /\ stages' = <<>>
    /\ cmds' = <<>>
    /\ report' = <<>>
    /\ reportOutcome' = "none"
    /\ boot_args' = <<>>
    /\ masterCmd' = <<>>
    /\ masterRc' = "none"
    /\ masterWrote' = NoFile
    /\ err' = "none"
    /\ interrupted' = FALSE
    /\ exitStatus' = -1
    /\ logs' = {}
    /\ UNCHANGED <<envVars, output_iso, patchVars>>

Next ==
    \/ enter
    \/ check_dependencies
    \/ validate_iso
    \/ build_branch
    \/ extract_iso
    \/ make_writable
    \/ modify_boot_configs
    \/ boot_info
    \/ create_iso
    \/ exit_scope
    \/ main
    \/ interrupt
    \/ next_invocation

Spec == Init /\ [][Next]_vars

\* ------------------------------------------------------- the patch engine
\* Config texts given to the patcher: a line start, a keyword part, and up
\* to MaxTail fragments after it.
LineStarts == {<<>>, <<"#", " ">>, <<"q">>, <<"q", " ">>}

KeywordParts ==
    { <<"linux", " ", "/casper/vmlinuz">>,
      <<"linux", "efi", "\t", "/casper/hwe-vmlinuz">>,
      <<"linux", " ", "q">>,
      <<"append">>,
      <<"q">> }

TailFragments ==
    { <<" ">>, <<"\n">>, <<"---">>, <<"q">>, <<"append">>,
      <<"linux", " ", "/casper/vmlinuz">> }

RECURSIVE Tails(_)
Tails(n) ==
    IF n = 0 THEN {<<>>}
    ELSE Tails(n - 1) \cup {t \o f : t \in Tails(n - 1), f \in TailFragments}

Texts == {s \o k \o t : s \in LineStarts, k \in KeywordParts, t \in Tails(MaxTail)}

\* Passes of the rule set over one text.
MaxPasses == 2

PatchInit ==
    /\ run = 1
    /\ validate_only = FALSE
    /\ toolOnPath = TRUE
    /\ sourceExists = TRUE
    /\ output_iso = NoFile
    /\ outputAtStart = NoFile
    /\ prev = NoPrev
    /\ pc = "patcher"
    /\ FreshRun
    /\ dialect \in Dialects
    /\ original \in Texts
    /\ before = original
    /\ content = original
    /\ passes = 0

\* modify_file_with_patterns, lines 152-159: the rules of the dialect, then
\* the collapse of blanks, over the text read.
apply_patterns ==
    /\ passes < MaxPasses
    /\ before' = content
    /\ content' = PatchContent(PatternsOf(dialect), content)
    /\ passes' = passes + 1
    /\ UNCHANGED <<run, pc, envVars, output_iso, outputAtStart, work_dir,
                   treeVars, stages, cmds, isoVars, err, interrupted,
                   exitStatus, logs, prev, dialect, original>>

PatchNext == apply_patterns

PatchSpec == PatchInit /\ [][PatchNext]_vars

\* ----------------------------------------------------------------- claims
Range(q) == {q[i] : i \in DOMAIN q}

IsPrefix(a, b) == Len(a) <= Len(b) /\ SubSeq(b, 1, Len(a)) = a

NoRepeats(q) == \A i, j \in DOMAIN q : i # j => q[i] # q[j]

Left == pc \in {"handler", "done"}

\* The lines of a text, without their newlines.
RECURSIVE Lines(_)
Lines(t) ==
    IF \A i \in DOMAIN t : t[i] # "\n" THEN <<t>>
    ELSE LET n == CHOOSE i \in DOMAIN t :
                      t[i] = "\n" /\ \A j \in 1..(i - 1) : t[j] # "\n"
         IN  <<SubSeq(t, 1, n - 1)>> \o Lines(SubSeq(t, n + 1, Len(t)))

IsBlank(a) == a \in Whitespace

\* The words of a line, in order.
Words(l) == SelectSeq(l, LAMBDA a : ~IsBlank(a))

DirectiveWords == Words(autoinstall_params)

DirectiveCount(l) ==
    Cardinality({i \in 1..(Len(l) - 2) : SubSeq(l, i, i + 2) = autoinstall_params})

\* Index i of line l starts a word; index i ends one.
WordStart(l, i) == i = 1 \/ IsBlank(l[i - 1])
WordEnd(l, i) == i = Len(l) \/ IsBlank(l[i + 1])

\* The last index of the kernel keyword part (the word `linux` or
\* `linuxefi`, whitespace, the word /casper/vmlinuz or /casper/hwe-vmlinuz)
\* that starts at index i of line l, 0 when none starts there.
KernelPartEnd(l, i) ==
    IF l[i] # "linux" \/ ~WordStart(l, i) THEN 0
    ELSE LET j == IF i < Len(l) /\ l[i + 1] = "efi" THEN i + 2 ELSE i + 1
             w == WsRun(l, j)
         IN  IF w >= 1 /\ j + w <= Len(l) /\ l[j + w] \in KernelPaths
                 /\ WordEnd(l, j + w)
             THEN j + w ELSE 0

\* The last index of the word `append` and the whitespace after it, 0 when
\* index i holds no word `append` followed by whitespace.
AppendPartEnd(l, i) ==
    IF l[i] = "append" /\ WordStart(l, i) /\ WsRun(l, i + 1) >= 1
    THEN i + WsRun(l, i + 1) ELSE 0

PartEnd(d, l, i) == IF d = "grub" THEN KernelPartEnd(l, i) ELSE AppendPartEnd(l, i)

PartStarts(d, l) == {i \in DOMAIN l : PartEnd(d, l, i) > 0}

FirstWord(l) == 1 + WsRun(l, 1)

IsComment(l) == FirstWord(l) <= Len(l) /\ l[FirstWord(l)] = "#"

\* A kernel-invocation line (GRUB) or boot-append command line (ISOLINUX):
\* the command is the first word of the line.
IsCommandLine(d, l) ==
    LET i == FirstWord(l)
    IN  /\ i <= Len(l)
        /\ IF d = "grub"
           THEN l[i] = "linux" /\
                (WsRun(l, i + 1) >= 1 \/
                 (i < Len(l) /\ l[i + 1] = "efi" /\ WsRun(l, i + 2) >= 1))
           ELSE l[i] = "append" /\ WsRun(l, i + 1) >= 1

\* C1: on every exit path the Working Tree directory created by __enter__
\* no longer exists once the with scope has been left.
C1_WorkTreeRemoved == Left => work_dir = "removed"

\* C2: patching is idempotent for every dialect: the rule set and the collapse
\* step applied to once-patched text leave it unchanged.
C2_PatchIdempotent == passes >= 2 => content = before

\* C3: after one pass, a line holding a kernel keyword part (GRUB) or an
\* `append` keyword part (ISOLINUX) holds the directive exactly once, right
\* after the keyword part, and the words that followed it follow in order.
C3_DirectiveInserted ==
    passes = 1 =>
        /\ Len(Lines(content)) = Len(Lines(original))
        /\ \A n \in DOMAIN Lines(original) :
              LET l == Lines(original)[n]
                  S == PartStarts(dialect, l)
              IN  Cardinality(S) = 1 =>
                      LET e == PartEnd(dialect, l, CHOOSE i \in S : TRUE)
                      IN  Words(Lines(content)[n]) =
                              Words(SubSeq(l, 1, e)) \o DirectiveWords
                                  \o Words(SubSeq(l, e + 1, Len(l)))

C5_AlwaysSuccess ==
    (pc = "done" /\ outputAtStart.exists /\ ~validate_only /\ ~interrupted) =>
        /\ exitStatus = 0
        /\ cmds = <<>>
        /\ output_iso = outputAtStart

\* C5 amended: with a file at the output path when build() is invoked, the
\* output is left as it is and nothing is extracted in full, patched or
\* mastered; dependency-check and inspect run first, so the build succeeds
\* when the tool is on PATH and the source image exists, having run only the
\* two inspection commands.
C5_ShortCircuitAfterInspect ==
    (pc # "main" /\ outputAtStart.exists /\ ~validate_only) =>
        /\ output_iso = outputAtStart
        /\ IsPrefix(stages, <<"dependency-check", "inspect">>)
        /\ IsPrefix(cmds, <<"extract /.disk/info", "find">>)
        /\ tree = EmptyTree /\ backups = EmptyTree /\ records = <<>>
        /\ masterCmd = <<>>
        /\ (pc = "done" /\ ~interrupted) =>
              /\ exitStatus = 0 <=> (toolOnPath /\ sourceExists)
              /\ exitStatus = 0 =>
                    /\ "Output ISO already exists" \in logs
                    /\ cmds = <<"extract /.disk/info", "find">>

\* C5 witness: a build that found an output file has ended with success.
C5_Witness ==
    /\ pc = "done" /\ outputAtStart.exists /\ ~validate_only
    /\ exitStatus = 0
    /\ "Output ISO already exists" \in logs

\* C6: a build that reached the rebuild stage reports success only if the
\* mastering command exited zero and the output exists with at least 1 MiB;
\* otherwise it exits non-zero and no success is reported.
C6_SuccessOnlyIfVerified ==
    LET verified ==
            /\ masterRc = "zero"
            /\ output_iso.exists
            /\ output_iso.size >= MinOutputBytes
    IN  /\ "Build complete" \in logs => verified
        /\ (pc = "done" /\ "rebuild" \in Range(stages)) =>
              /\ exitStatus = 0 => verified /\ "Build complete" \in logs
              /\ ~verified => exitStatus # 0 /\ "Build complete" \notin logs

\* C6 witness: the tool exited zero, left one byte less than 1 MiB, and
\* the build failed.
C6_Witness ==
    /\ pc = "done"
    /\ masterRc = "zero"
    /\ output_iso.exists /\ output_iso.size = MinOutputBytes - 1
    /\ exitStatus = 1

\* C7: once patching has begun the rebuild stage is reached unless the user
\* interrupts: an absent candidate is recorded unmodified without error, a
\* failure on one file is recorded unmodified and the candidates after it
\* are still handled, and no modified file at all only logs a warning.
C7_PatchNeverAborts ==
    /\ IsPrefix([i \in DOMAIN records |-> records[i].path], Candidates)
    /\ \A i \in DOMAIN records :
          /\ ~records[i].present => ~records[i].modified /\ ~records[i].failed
          /\ records[i].failed => ~records[i].modified
    /\ (pc \in {"exit", "handler", "done"} /\ "patch-configs" \in Range(stages)
            /\ ~interrupted) => "rebuild" \in Range(stages)
    /\ "rebuild" \in Range(stages) =>
          /\ Len(records) = Len(Candidates)
          /\ ModifiedCount(records) = 0 =>
                "No boot configuration files were modified" \in logs

\* C7 witness: the rebuild stage was reached after a candidate was absent,
\* one failed and a later one was modified.
C7_Witness ==
    /\ "rebuild" \in Range(stages)
    /\ \E i, j \in DOMAIN records :
          i < j /\ records[i].failed /\ records[j].modified
    /\ \E i \in DOMAIN records : ~records[i].present

\* C8: the stages run in the order dependency-check, inspect, extract,
\* patch-configs, rebuild, none twice, none skipped, none after a fatal
\* error, no command run twice; without the tool nothing is run; in
\* validate-only mode the run ends with success after inspect.
C8_LinearStages ==
    /\ IsPrefix(stages, Stages)
    /\ NoRepeats(cmds)
    /\ err # "none" => pc \in {"exit", "handler", "done"}
    /\ "Build complete" \in logs =>
          /\ stages = Stages
          /\ cmds = <<"extract /.disk/info", "find", "extract /",
                      "report_el_torito", "mkisofs">>
    /\ ~toolOnPath =>
          /\ cmds = <<>>
          /\ Len(stages) <= 1
          /\ tree = EmptyTree /\ records = <<>> /\ masterCmd = <<>>
          /\ pc = "done" => exitStatus = 1
    /\ validate_only =>
          /\ IsPrefix(stages, <<"dependency-check", "inspect">>)
          /\ IsPrefix(cmds, <<"extract /.disk/info", "find">>)
          /\ tree = EmptyTree /\ records = <<>> /\ masterCmd = <<>>
          /\ (pc = "done" /\ toolOnPath /\ sourceExists /\ ~interrupted) =>
                /\ exitStatus = 0
                /\ "Validation complete" \in logs
                /\ stages = <<"dependency-check", "inspect">>

\* C8 witness: a full build has gone through the five stages.
C8_Witness ==
    /\ pc = "done"
    /\ stages = Stages
    /\ "Build complete" \in logs
    /\ exitStatus = 0

\* C9: after one pass, a line that is a comment, or that is not a
\* kernel-invocation line (GRUB) or boot-append command line (ISOLINUX),
\* has not gained the directive.
C9_OnlyCommandLinesPatched ==
    passes = 1 =>
        /\ Len(Lines(content)) = Len(Lines(original))
        /\ \A n \in DOMAIN Lines(original) :
              LET l == Lines(original)[n]
              IN  (IsComment(l) \/ ~IsCommandLine(dialect, l)) =>
                      DirectiveCount(Lines(content)[n]) = DirectiveCount(l)

\* C10: a file the mastering tool wrote stays at the output path when the
\* build fails in the rebuild stage, and the next invocation takes the
\* output-exists short-circuit: it extracts, patches and masters nothing
\* and exits with success.
C10_FailedOutputShortCircuits ==
    /\ masterWrote.exists => output_iso = masterWrote
    /\ (run > 1 /\ prev.status # 0 /\ prev.wrote.exists) =>
          /\ output_iso = prev.wrote
          /\ IsPrefix(stages, <<"dependency-check", "inspect">>)
          /\ IsPrefix(cmds, <<"extract /.disk/info", "find">>)
          /\ tree = EmptyTree /\ records = <<>> /\ masterCmd = <<>>
          /\ (pc = "done" /\ ~interrupted) =>
                exitStatus = 0 /\ "Output ISO already exists" \in logs

\* C10 witness: the invocation after a build that failed on an undersized
\* output has ended with success, the file still there.
C10_Witness ==
    /\ run > 1 /\ pc = "done"
    /\ prev.status = 1
    /\ prev.wrote = File(MinOutputBytes - 1, run - 1)
    /\ output_iso = prev.wrote
    /\ exitStatus = 0

====
